---------------------------- MODULE Spec2Model ----------------------------
(***************************************************************************)
(* Model of pkg/services/ngalert/migration/alert_rule.go: the migration of *)
(* one legacy dashboard alert into a unified-alerting rule (migrateAlert)  *)
(* and the pure helpers it is built from.                                  *)
(*                                                                         *)
(* Strings whose length or content matters (titles, group names) are       *)
(* sequences of one-character strings; Go slices bytes, and every          *)
(* character used here is one byte.  Strings that are only compared        *)
(* (options, keys, identifiers) are TLA+ strings.                          *)
(***************************************************************************)
EXTENDS Integers, Sequences, FiniteSets, TLC

VARIABLES
    titles,     \* om.titleDeduplicatorForFolder: folder -> titles handed out so far
    migrated,   \* the caller's collection: folder -> rules returned so far (uid -> title)
    calls,      \* number of migrateAlert calls made in this run
    call,       \* the arguments and collaborator outcomes of the latest call
    ret,        \* what the latest migrateAlert call returned: [rule, err]
    silences,   \* the silence-creation requests the latest call issued, in order
    logs,       \* the log lines the latest call wrote (as a set of tags)
    fn,         \* name of the helper applied last (helper-level specification)
    arg,        \* its argument
    res         \* its result

vars == <<titles, migrated, calls, call, ret, silences, logs, fn, arg, res>>

Nil == "nil"          \* a nil error message
NoError == <<>>       \* a nil error returned by migrateAlert or Deduplicate
NoRule == [none |-> TRUE]   \* a nil *AlertRule

-----------------------------------------------------------------------------
(* Bounds of the model *)

MaxAlerts == 3      \* migrateAlert calls per run
MaxFreq == 120      \* largest legacy frequency tried on ruleAdjustInterval
MaxQueries == 2     \* longest query sequence handed to migrateAlertRuleQueries
TitleSlack == 3     \* how far beyond a length limit the tried titles reach

-----------------------------------------------------------------------------
(* Strings *)

Rep(c, n) == [i \in 1..n |-> c]

Digit(d) == CASE d = 0 -> "0" [] d = 1 -> "1" [] d = 2 -> "2" [] d = 3 -> "3"
              [] d = 4 -> "4" [] d = 5 -> "5" [] d = 6 -> "6" [] d = 7 -> "7"
              [] d = 8 -> "8" [] d = 9 -> "9"

\* fmt.Sprintf("%d", n) for n >= 0
RECURSIVE Itoa(_)
Itoa(n) == IF n < 10 THEN <<Digit(n)>> ELSE Itoa(n \div 10) \o <<Digit(n % 10)>>

-----------------------------------------------------------------------------
(* State translation *)

\* legacymodels.NoDataOption / ExecutionErrorOption values and two values
\* outside the enumerations (the stored option is free text).
NoDataOptions == {"ok", "", "no_data", "alerting", "keep_state", "bogus", "OK"}
ExecErrOptions == {"", "alerting", "keep_state", "ok", "bogus", "no_data"}

transNoData_KeepFires(s) ==
    CASE s = "ok" -> [state |-> "OK", warn |-> FALSE]
      [] s \in {"", "no_data"} -> [state |-> "NoData", warn |-> FALSE]
      [] s \in {"alerting", "keep_state"} -> [state |-> "Alerting", warn |-> FALSE]
      [] OTHER -> [state |-> "NoData", warn |-> TRUE]

\* The returned state, and whether l.Warn was called.
transNoData(s) ==
    CASE s = "ok" -> [state |-> "OK", warn |-> FALSE]
      [] s \in {"", "no_data"} -> [state |-> "NoData", warn |-> FALSE]
      [] s = "alerting" -> [state |-> "Alerting", warn |-> FALSE]
      [] s = "keep_state" -> [state |-> "NoData", warn |-> FALSE]
      [] OTHER -> [state |-> "NoData", warn |-> TRUE]

transExecErr(s) ==
    CASE s \in {"", "alerting"} -> [state |-> "AlertingErrState", warn |-> FALSE]
      [] s = "keep_state" -> [state |-> "ErrorErrState", warn |-> FALSE]
      [] s = "ok" -> [state |-> "OkErrState", warn |-> FALSE]
      [] OTHER -> [state |-> "ErrorErrState", warn |-> TRUE]

-----------------------------------------------------------------------------
(* Interval normalisation *)

ruleAdjustInterval_NoRounding(freq) ==
    LET baseFreq == 10 IN
    IF freq <= baseFreq THEN 10 ELSE freq

ruleAdjustInterval(freq) ==
    LET baseFreq == 10 IN
    IF freq <= baseFreq THEN 10 ELSE freq - (freq % baseFreq)

-----------------------------------------------------------------------------
(* Rule-group name *)

\* store.AlertRuleMaxRuleGroupNameLength and store.AlertDefinitionMaxTitleLength
\* (package pkg/services/ngalert/store).
AlertRuleMaxRuleGroupNameLength == 190
AlertDefinitionMaxTitleLength == 190

truncate(daName, length) ==
    IF Len(daName) > length THEN SubSeq(daName, 1, length) ELSE daName

\* One step f(unit, mult, exact) of model.Duration.String, on whole seconds:
\* the duration is interval * time.Second, so its millisecond count is
\* 1000 * sec and every test on it is the same test on sec.
DurationUnit(acc, unit, mult, exact) ==
    IF exact /\ acc.sec % mult # 0 THEN acc
    ELSE LET v == acc.sec \div mult IN
         IF v > 0 THEN [r |-> acc.r \o Itoa(v) \o unit, sec |-> acc.sec - v * mult]
         ELSE acc

\* model.Duration(time.Duration(interval) * time.Second).String()
DurationString(interval) ==
    IF interval = 0 THEN <<"0", "s">>
    ELSE IF interval < 0 THEN <<>>
    ELSE LET a0 == [r |-> <<>>, sec |-> interval]
             a1 == DurationUnit(a0, <<"y">>, 31536000, TRUE)
             a2 == DurationUnit(a1, <<"w">>, 604800, TRUE)
             a3 == DurationUnit(a2, <<"d">>, 86400, FALSE)
             a4 == DurationUnit(a3, <<"h">>, 3600, FALSE)
             a5 == DurationUnit(a4, <<"m">>, 60, FALSE)
             a6 == DurationUnit(a5, <<"s">>, 1, FALSE)
         IN a6.r

panelSuffix(interval) == <<" ", "-", " ">> \o DurationString(interval)

groupName_TruncateAfter(interval, dashboardTitle) ==
    truncate(dashboardTitle \o panelSuffix(interval), AlertRuleMaxRuleGroupNameLength)

groupName(interval, dashboardTitle) ==
    LET suffix == panelSuffix(interval)
        truncatedDashboard ==
            truncate(dashboardTitle, AlertRuleMaxRuleGroupNameLength - Len(suffix))
    IN truncatedDashboard \o suffix

-----------------------------------------------------------------------------
(* Query models: JSON documents *)

\* A query model (json.RawMessage) is one of
\*   [kind |-> "invalid"]                 bytes that are not JSON
\*   [kind |-> "scalar"]                  JSON, but neither an object nor null
\*   [kind |-> "null"]                    the JSON literal null
\*   [kind |-> "object", members |-> s]   s: the members as written, each
\*                                        [k |-> key, v |-> raw bytes of the value]
\* Raw member values are the byte strings below.

Absent == "<absent>"

RawProm == "{\"type\":\"prometheus\"}"
RawPromSpaced == "{ \"type\": \"prometheus\" }"
RawGraphite == "{\"type\":\"graphite\"}"

\* json.Unmarshal(raw, &b) for b a bool that starts false.
ParseBool(raw) ==
    CASE raw = "true" -> [err |-> FALSE, val |-> TRUE]
      [] raw = "false" -> [err |-> FALSE, val |-> FALSE]
      [] raw = "null" -> [err |-> FALSE, val |-> FALSE]
      [] OTHER -> [err |-> TRUE, val |-> FALSE]

\* json.Unmarshal(raw, &datasource) for datasource a struct{Type string}.
ParseDatasource(raw) ==
    CASE raw \in {RawProm, RawPromSpaced} -> [err |-> FALSE, type |-> "prometheus"]
      [] raw = RawGraphite -> [err |-> FALSE, type |-> "graphite"]
      [] raw \in {"{}", "null", "{\"type\":null}"} -> [err |-> FALSE, type |-> ""]
      [] OTHER -> [err |-> TRUE, type |-> ""]

\* What json.Marshal writes for a json.RawMessage: the value compacted
\* (insignificant whitespace dropped) and <, >, & escaped.
Compact(raw) ==
    CASE raw = RawPromSpaced -> RawProm
      [] raw = "\"a<b\"" -> "\"a\\u003cb\""
      [] OTHER -> raw

DeleteKey(m, k) == [x \in (DOMAIN m) \ {k} |-> m[x]]
PutKey(m, k, v) == [x \in (DOMAIN m) \cup {k} |-> IF x = k THEN v ELSE m[x]]
EmptyMap == [x \in {} |-> Absent]

\* The last member with key k wins.
LastValue(members, k) ==
    LET idx == {i \in 1..Len(members) : members[i].k = k}
        last == CHOOSE i \in idx : \A j \in idx : j <= i
    IN members[last].v

\* json.Unmarshal(d.Model, &fixedData) for fixedData a nil
\* map[string]json.RawMessage: [err, nil, m].
Unmarshal(doc) ==
    CASE doc.kind = "object" ->
           [err |-> FALSE, nil |-> FALSE,
            m |-> [k \in {doc.members[i].k : i \in 1..Len(doc.members)} |->
                      LastValue(doc.members, k)]]
      [] doc.kind = "null" -> [err |-> FALSE, nil |-> TRUE, m |-> EmptyMap]
      [] OTHER -> [err |-> TRUE, nil |-> TRUE, m |-> EmptyMap]

\* encoding/json writes map keys in sorted order.
KeyOrder == <<"datasource", "expr", "hide", "instant", "range", "target", "targetFull">>

\* json.Marshal(fixedData)
Marshal(nil, m) ==
    IF nil THEN [kind |-> "null"]
    ELSE LET InMap(k) == k \in DOMAIN m
             ks == SelectSeq(KeyOrder, InMap)
         IN [kind |-> "object",
             members |-> [i \in 1..Len(ks) |-> [k |-> ks[i], v |-> Compact(m[ks[i]])]]]

-----------------------------------------------------------------------------
(* Query repair *)

\* graphite.TargetFullModelField, graphite.TargetModelField (pkg/tsdb/graphite)
TargetFullModelField == "targetFull"
TargetModelField == "target"
\* datasources.DS_PROMETHEUS
DS_PROMETHEUS == "prometheus"
\* the reserved datasource UID of expression nodes
expressionDatasourceUID == "__expr__"

fixGraphiteReferencedSubQueries(queryData) ==
    IF TargetFullModelField \in DOMAIN queryData
    THEN PutKey(DeleteKey(queryData, TargetFullModelField),
                TargetModelField, queryData[TargetFullModelField])
    ELSE queryData

isPrometheusQuery_AnyType(queryData) ==
    IF "datasource" \notin DOMAIN queryData
    THEN [is |-> FALSE, err |-> "missing datasource field"]
    ELSE LET ds == ParseDatasource(queryData["datasource"]) IN
         IF ds.err THEN [is |-> FALSE, err |-> "parse datasource"]
         ELSE IF ds.type = "" THEN [is |-> FALSE, err |-> "missing type field"]
         ELSE [is |-> TRUE, err |-> Nil]

\* [is, err]
isPrometheusQuery(queryData) ==
    IF "datasource" \notin DOMAIN queryData
    THEN [is |-> FALSE, err |-> "missing datasource field"]
    ELSE LET ds == ParseDatasource(queryData["datasource"]) IN
         IF ds.err THEN [is |-> FALSE, err |-> "parse datasource"]
         ELSE IF ds.type = "" THEN [is |-> FALSE, err |-> "missing type field"]
         ELSE [is |-> ds.type = DS_PROMETHEUS, err |-> Nil]

fixPrometheusBothTypeQuery_InstantOnly(queryData) ==
    LET hasI == "instant" \in DOMAIN queryData
        pI == IF hasI THEN ParseBool(queryData["instant"]) ELSE [err |-> FALSE, val |-> FALSE]
        prom == isPrometheusQuery(queryData)
    IN IF pI.err \/ ~pI.val \/ prom.err # Nil \/ ~prom.is
       THEN [data |-> queryData, logs |-> {}]
       ELSE [data |-> PutKey(queryData, "instant", "false"), logs |-> {"warn: both to range"}]

\* The map it returns and the lines it logs.
fixPrometheusBothTypeQuery(queryData) ==
    LET hasI == "instant" \in DOMAIN queryData
        hasR == "range" \in DOMAIN queryData
        pI == IF hasI THEN ParseBool(queryData["instant"]) ELSE [err |-> FALSE, val |-> FALSE]
        pR == IF hasR THEN ParseBool(queryData["range"]) ELSE [err |-> FALSE, val |-> FALSE]
        prom == isPrometheusQuery(queryData)
    IN IF pI.err
       THEN [data |-> queryData,
             logs |-> IF prom.is THEN {"info: failed to parse instant"} ELSE {}]
       ELSE IF pR.err
       THEN [data |-> queryData,
             logs |-> IF prom.is THEN {"info: failed to parse range"} ELSE {}]
       ELSE IF ~pI.val \/ ~pR.val
       THEN [data |-> queryData, logs |-> {}]
       ELSE IF prom.err # Nil
       THEN [data |-> queryData, logs |-> {"info: unable to convert"}]
       ELSE IF ~prom.is
       THEN [data |-> queryData, logs |-> {}]
       ELSE [data |-> PutKey(queryData, "instant", "false"),
             logs |-> {"warn: both to range"}]

\* The body of the loop of migrateAlertRuleQueries for one query d:
\* [err, d, logs], d being the query appended to the result.
migrateQuery(d) ==
    IF d.DatasourceUID = expressionDatasourceUID
    THEN [err |-> Nil, d |-> d, logs |-> {}]
    ELSE LET u == Unmarshal(d.Model) IN
         IF u.err THEN [err |-> "json: cannot unmarshal", d |-> d, logs |-> {}]
         ELSE LET fixed1 == DeleteKey(u.m, "hide")
                  fixed2 == fixGraphiteReferencedSubQueries(fixed1)
                  fixed3 == fixPrometheusBothTypeQuery(fixed2)
              IN [err |-> Nil,
                  d |-> [d EXCEPT !.Model = Marshal(u.nil, fixed3.data)],
                  logs |-> fixed3.logs]

RECURSIVE migrateLoop(_, _, _, _)
migrateLoop(data, i, result, lg) ==
    IF i > Len(data) THEN [result |-> result, err |-> Nil, logs |-> lg]
    ELSE LET q == migrateQuery(data[i]) IN
         IF q.err # Nil THEN [result |-> <<>>, err |-> q.err, logs |-> lg]
         ELSE migrateLoop(data, i + 1, Append(result, q.d), lg \cup q.logs)

\* [result, err, logs]
migrateAlertRuleQueries(data) == migrateLoop(data, 1, <<>>, {})

-----------------------------------------------------------------------------
(* Title deduplication: om.titleDeduplicatorForFolder(folder).Deduplicate *)

MaxDedupAttempts == 1   \* numbered suffixes tried: " #2" .. " #(MaxDedupAttempts+1)"

DedupError == <<"failed to deduplicate title">>

dedupSuffix(i) == <<" ", "#">> \o Itoa(i)

dedupCandidate(base, i) ==
    truncate(base, AlertDefinitionMaxTitleLength - Len(dedupSuffix(i))) \o dedupSuffix(i)

\* Deduplicate(name) against the titles already handed out for the folder:
\* [name, err].  The caller adds a returned name to the folder's set.
Deduplicate(seen, name) ==
    LET base == truncate(name, AlertDefinitionMaxTitleLength)
        free == {i \in 2..(MaxDedupAttempts + 1) : dedupCandidate(base, i) \notin seen}
    IN IF base \notin seen THEN [name |-> base, err |-> NoError]
       ELSE IF free = {} THEN [name |-> <<>>, err |-> DedupError]
       ELSE [name |-> dedupCandidate(base, CHOOSE i \in free : \A j \in free : i <= j),
             err |-> NoError]

-----------------------------------------------------------------------------
(* Channels, labels and annotations *)

\* om.channelCache: the notification channels of the organisation.
ChannelsByID == [i \in {1} |-> "slack"]
ChannelsByUID == [u \in {"u2"} |-> "email"]

extractChannels_IDOnly(notifications) ==
    LET Found(key) == key.ID > 0 /\ key.ID \in DOMAIN ChannelsByID
        hits == SelectSeq(notifications, Found)
    IN [channels |-> [i \in 1..Len(hits) |-> ChannelsByID[hits[i].ID]],
        logs |-> IF Len(hits) < Len(notifications)
                 THEN {"warn: failed to get alert notification"} ELSE {}]

\* The channels resolved, in order, and the lines logged.
extractChannels(notifications) ==
    LET ByID(key) == key.ID > 0 /\ key.ID \in DOMAIN ChannelsByID
        ByUID(key) == key.UID # "" /\ key.UID \in DOMAIN ChannelsByUID
        Found(key) == ByID(key) \/ ByUID(key)
        hits == SelectSeq(notifications, Found)
    IN [channels |-> [i \in 1..Len(hits) |->
                         IF ByID(hits[i]) THEN ChannelsByID[hits[i].ID]
                         ELSE ChannelsByUID[hits[i].UID]],
        logs |-> IF Len(hits) < Len(notifications)
                 THEN {"warn: failed to get alert notification"} ELSE {}]

\* ngmodels.MigratedUseLegacyChannelsLabel, contactLabel, MigrateTmpl,
\* getLabelForSilenceMatching and the annotation keys of ngmodels.
MigratedUseLegacyChannelsLabel == "__legacy_use_channels__"
contactLabel(name) == "__legacy_c_" \o name \o "__"
MigrateTmpl(message) == "migrated:" \o message
getLabelForSilenceMatching(uid) == [n |-> "rule_uid", v |-> uid]

\* alert.GetTagsFromSettings(): the tags of the legacy alert.
AlertTags == [k \in {"team"} |-> "ops"]

\* [lbls, annotations]
addLabelsAndAnnotations(alert, dashboardUID, channels) ==
    LET tagged == AlertTags
        routed == PutKey(tagged, MigratedUseLegacyChannelsLabel, "true")
        contacts == {contactLabel(channels[i]) : i \in 1..Len(channels)}
        lbls == [k \in (DOMAIN routed) \cup contacts |->
                    IF k \in contacts THEN "true" ELSE routed[k]]
        annotations ==
            [k \in {"__dashboardUid__", "__panelId__", "__alertId__", "message"} |->
                CASE k = "__dashboardUid__" -> dashboardUID
                  [] k = "__panelId__" -> ToString(alert.PanelID)
                  [] k = "__alertId__" -> ToString(alert.ID)
                  [] k = "message" -> MigrateTmpl(alert.Message)]
    IN [lbls |-> lbls, annotations |-> annotations]

-----------------------------------------------------------------------------
(* migrateAlert *)

NewAlertRule_KeepName(alert, info, parsedSettings, cond, data, name, uid, la) ==
    [OrgID |-> alert.OrgID, Title |-> alert.Name, UID |-> uid,
     Condition |-> cond.Condition, Data |-> data,
     IntervalSeconds |-> ruleAdjustInterval(alert.Frequency), Version |-> 1,
     NamespaceUID |-> info.NewFolderUID, DashboardUID |-> info.DashboardUID,
     PanelID |-> alert.PanelID,
     RuleGroup |-> groupName(ruleAdjustInterval(alert.Frequency), info.DashboardName),
     For |-> alert.For, Annotations |-> la.annotations,
     Labels |-> PutKey(la.lbls, getLabelForSilenceMatching(uid).n,
                       getLabelForSilenceMatching(uid).v),
     RuleGroupIndex |-> 1, IsPaused |-> (alert.State = "paused"),
     NoDataState |-> transNoData(parsedSettings.NoDataState).state,
     ExecErrState |-> transExecErr(parsedSettings.ExecutionErrorState).state]

\* The rule record assembled once every hard stage has succeeded, with the
\* silence-matching label added (Updated, the capture time, is left out).
NewAlertRule(alert, info, parsedSettings, cond, data, name, uid, la) ==
    [OrgID |-> alert.OrgID, Title |-> name, UID |-> uid,
     Condition |-> cond.Condition, Data |-> data,
     IntervalSeconds |-> ruleAdjustInterval(alert.Frequency), Version |-> 1,
     NamespaceUID |-> info.NewFolderUID, DashboardUID |-> info.DashboardUID,
     PanelID |-> alert.PanelID,
     RuleGroup |-> groupName(ruleAdjustInterval(alert.Frequency), info.DashboardName),
     For |-> alert.For, Annotations |-> la.annotations,
     Labels |-> PutKey(la.lbls, getLabelForSilenceMatching(uid).n,
                       getLabelForSilenceMatching(uid).v),
     RuleGroupIndex |-> 1, IsPaused |-> (alert.State = "paused"),
     NoDataState |-> transNoData(parsedSettings.NoDataState).state,
     ExecErrState |-> transExecErr(parsedSettings.ExecutionErrorState).state]

\* om.addErrorSilence(ar) / om.addNoDataSilence(ar): the request handed to the
\* caller's silence store, and whether storing it failed.
addErrorSilence(ar, fails) ==
    [kind |-> "error", matcher |-> getLabelForSilenceMatching(ar.UID), failed |-> fails]
addNoDataSilence(ar, fails) ==
    [kind |-> "no-data", matcher |-> getLabelForSilenceMatching(ar.UID), failed |-> fails]

addSilences_OnAlerting(parsedSettings, ar, errFails, noDataFails) ==
    (IF parsedSettings.ExecutionErrorState \in {"keep_state", "alerting"}
     THEN <<addErrorSilence(ar, errFails)>> ELSE <<>>)
    \o (IF parsedSettings.NoDataState \in {"keep_state", "alerting"}
        THEN <<addNoDataSilence(ar, noDataFails)>> ELSE <<>>)

\* The silence requests issued for an assembled rule, in order.
addSilences(parsedSettings, ar, errFails, noDataFails) ==
    (IF parsedSettings.ExecutionErrorState = "keep_state"
     THEN <<addErrorSilence(ar, errFails)>> ELSE <<>>)
    \o (IF parsedSettings.NoDataState = "keep_state"
        THEN <<addNoDataSilence(ar, noDataFails)>> ELSE <<>>)

silenceLogs(reqs) ==
    {"error: failed to create silence for " \o reqs[i].kind :
        i \in {j \in 1..Len(reqs) : reqs[j].failed}}

Failure(err, lg) ==
    [rule |-> NoRule, err |-> err, named |-> FALSE, name |-> <<>>, silences |-> <<>>, logs |-> lg]

migrateAlert_IgnoreQueryError(c, seen, uid) ==
    LET alert == c.alert
        info == c.info
        parsedSettings == alert.Settings
        start == {"debug: migrating alert rule"}
    IN
    IF alert.Settings.json = "unmarshalable"
    THEN Failure(<<"get settings", "json: unsupported value">>, start)
    ELSE IF alert.Settings.json = "malformed"
    THEN Failure(<<"parse settings", "json: cannot unmarshal">>, start)
    ELSE IF c.cond.err # Nil
    THEN Failure(<<"transform conditions", c.cond.err>>, start)
    ELSE
    LET ch == extractChannels(parsedSettings.Notifications)
        la == addLabelsAndAnnotations(alert, info.DashboardUID, ch.channels)
        q == migrateAlertRuleQueries(c.cond.Data)
        lg1 == start \cup ch.logs \cup q.logs
        dd == Deduplicate(seen, alert.Name)
    IN
    IF dd.err # NoError THEN Failure(dd.err, lg1)
    ELSE
    LET ar == NewAlertRule(alert, info, parsedSettings, c.cond, q.result, dd.name, uid, la)
        reqs == addSilences(parsedSettings, ar, c.errSilenceFails, c.noDataSilenceFails)
        lg2 == lg1
               \cup (IF dd.name # alert.Name THEN {"info: title modified"} ELSE {})
               \cup (IF transNoData(parsedSettings.NoDataState).warn
                     THEN {"warn: unable to translate NoData"} ELSE {})
               \cup (IF transExecErr(parsedSettings.ExecutionErrorState).warn
                     THEN {"warn: unable to translate Error"} ELSE {})
               \cup silenceLogs(reqs)
    IN [rule |-> ar, err |-> NoError, named |-> TRUE, name |-> dd.name,
        silences |-> reqs, logs |-> lg2]

\* migrateAlert for the call c, the folder's deduplicator holding `seen` and
\* util.GenerateShortUID() returning uid: [rule, err] as returned, named and name (whether
\* the deduplicator handed out a title, and which), the silence requests
\* issued and the lines logged.
migrateAlert(c, seen, uid) ==
    LET alert == c.alert
        info == c.info
        parsedSettings == alert.Settings
        start == {"debug: migrating alert rule"}
    IN
    IF alert.Settings.json = "unmarshalable"
    THEN Failure(<<"get settings", "json: unsupported value">>, start)
    ELSE IF alert.Settings.json = "malformed"
    THEN Failure(<<"parse settings", "json: cannot unmarshal">>, start)
    ELSE IF c.cond.err # Nil
    THEN Failure(<<"transform conditions", c.cond.err>>, start)
    ELSE
    LET ch == extractChannels(parsedSettings.Notifications)
        la == addLabelsAndAnnotations(alert, info.DashboardUID, ch.channels)
        q == migrateAlertRuleQueries(c.cond.Data)
        lg0 == start \cup ch.logs
    IN
    IF q.err # Nil THEN Failure(<<"queries", q.err>>, lg0 \cup q.logs)
    ELSE
    LET lg1 == lg0 \cup q.logs
        dd == Deduplicate(seen, alert.Name)
    IN
    IF dd.err # NoError THEN Failure(dd.err, lg1)
    ELSE
    LET ar == NewAlertRule(alert, info, parsedSettings, c.cond, q.result, dd.name, uid, la)
        reqs == addSilences(parsedSettings, ar, c.errSilenceFails, c.noDataSilenceFails)
        lg2 == lg1
               \cup (IF dd.name # alert.Name THEN {"info: title modified"} ELSE {})
               \cup (IF transNoData(parsedSettings.NoDataState).warn
                     THEN {"warn: unable to translate NoData"} ELSE {})
               \cup (IF transExecErr(parsedSettings.ExecutionErrorState).warn
                     THEN {"warn: unable to translate Error"} ELSE {})
               \cup silenceLogs(reqs)
    IN [rule |-> ar, err |-> NoError, named |-> TRUE, name |-> dd.name,
        silences |-> reqs, logs |-> lg2]

-----------------------------------------------------------------------------
(* Inputs *)

CPUHigh == <<"C", "P", "U", " ", "H", "i", "g", "h">>

Infos ==
    {[NewFolderUID |-> "f1", DashboardUID |-> "d1", DashboardName |-> <<"D", "1">>],
     [NewFolderUID |-> "f2", DashboardUID |-> "d2",
      DashboardName |-> Rep("d", AlertRuleMaxRuleGroupNameLength + TitleSlack)]}

Folders == {i.NewFolderUID : i \in Infos}

\* The legacy alerts of the run, apart from their settings.
Alerts ==
    {[Name |-> CPUHigh, Frequency |-> 5, State |-> "paused", For |-> 0],
     [Name |-> CPUHigh \o dedupSuffix(2), Frequency |-> 23, State |-> "ok", For |-> 60],
     [Name |-> Rep("a", AlertDefinitionMaxTitleLength + TitleSlack),
      Frequency |-> 60, State |-> "alerting", For |-> 300]}

Key(id, uid) == [ID |-> id, UID |-> uid]

\* Notification references: found by id; not found by id but found by uid;
\* found by neither.
NotificationLists ==
    {<<>>, <<Key(1, "")>>, <<Key(9, "u2"), Key(9, "")>>, <<Key(0, "zz"), Key(1, "u2")>>}

MainNoDataOptions == {"ok", "alerting", "keep_state", "bogus"}
MainExecErrOptions == {"", "ok", "keep_state", "bogus"}

Obj(ms) == [kind |-> "object", members |-> ms]
Mem(k, v) == [k |-> k, v |-> v]
Query(ref, ds, doc) == [RefID |-> ref, DatasourceUID |-> ds, Model |-> doc]

PromBoth ==
    Obj(<<Mem("range", "true"), Mem("instant", "true"), Mem("datasource", RawPromSpaced)>>)
GraphiteSub ==
    Obj(<<Mem("hide", "true"), Mem("target", "\"a\""), Mem("targetFull", "\"a<b\""),
          Mem("datasource", RawGraphite)>>)
ExprNode == Obj(<<Mem("hide", "true"), Mem("expr", "\"A > 1\"")>>)
Duplicated ==
    Obj(<<Mem("instant", "true"), Mem("range", "true"), Mem("instant", "false"),
          Mem("datasource", RawProm)>>)

\* A few queries that between them take every path of the repair.
SampleQueries ==
    {Query("A", "ds1", PromBoth), Query("A", "ds1", GraphiteSub),
     Query("B", expressionDatasourceUID, ExprNode),
     Query("A", "ds1", [kind |-> "invalid"]), Query("A", "ds1", Duplicated)}

\* The translated conditions transConditions may hand back, or its failure.
Conditions ==
    {[err |-> Nil, Condition |-> "B",
      Data |-> <<Query("A", "ds1", PromBoth), Query("B", expressionDatasourceUID, ExprNode)>>],
     [err |-> Nil, Condition |-> "B", Data |-> <<Query("A", "ds1", GraphiteSub)>>],
     [err |-> Nil, Condition |-> "B",
      Data |-> <<Query("A", "ds1", GraphiteSub), Query("B", "ds1", [kind |-> "scalar"])>>],
     [err |-> "condition error", Condition |-> "", Data |-> <<>>]}

NoCall == [none |-> TRUE]
NoValue == [none |-> TRUE]

-----------------------------------------------------------------------------
(* The migration run *)

\* util.GenerateShortUID(): a fresh identifier per call.
GenerateShortUID(n) == "uid" \o ToString(n + 1)

EmptyBagOfTitles == [t \in {} |-> 0]

AddTitle(bag, t) ==
    [x \in (DOMAIN bag) \cup {t} |->
        IF x = t THEN (IF t \in DOMAIN bag THEN bag[t] + 1 ELSE 1) ELSE bag[x]]

Init ==
    /\ titles = [f \in Folders |-> {}]
    /\ migrated = [f \in Folders |-> EmptyBagOfTitles]
    /\ calls = 0
    /\ call = NoCall
    /\ ret = [rule |-> NoRule, err |-> NoError]
    /\ silences = <<>>
    /\ logs = {}
    /\ fn = "none"
    /\ arg = NoValue
    /\ res = NoValue

\* One call of om.migrateAlert by the migration run, once the caller has
\* dealt with the outcome of the call before.
MigrateAlert ==
    /\ calls < MaxAlerts
    /\ call = NoCall
    /\ \E a \in Alerts, info \in Infos,
          js \in {"ok", "malformed", "unmarshalable"},
          nd \in MainNoDataOptions, ee \in MainExecErrOptions,
          notif \in NotificationLists, cnd \in Conditions,
          errFails \in BOOLEAN, noDataFails \in BOOLEAN :
        \* settings that do not parse carry no options, the options are not
        \* looked at when the conditions do not translate, and a failing
        \* silence store is only observable when a silence is asked for
        /\ js # "ok" => cnd.err # Nil
        /\ cnd.err # Nil => (nd = "ok" /\ ee = "" /\ notif = <<>>)
        /\ errFails => ee = "keep_state"
        /\ noDataFails => nd = "keep_state"
        /\ LET c == [alert |-> [ID |-> calls + 1, OrgID |-> 1, PanelID |-> 7,
                                Name |-> a.Name, Message |-> "msg",
                                Frequency |-> a.Frequency, For |-> a.For,
                                State |-> a.State,
                                Settings |-> [json |-> js, NoDataState |-> nd,
                                              ExecutionErrorState |-> ee,
                                              Notifications |-> notif]],
                     info |-> info, cond |-> cnd,
                     errSilenceFails |-> errFails, noDataSilenceFails |-> noDataFails]
               f == info.NewFolderUID
           IN \E r \in {migrateAlert(c, titles[f], GenerateShortUID(calls))} :
              /\ call' = c
              /\ ret' = [rule |-> r.rule, err |-> r.err]
              /\ silences' = r.silences
              /\ logs' = r.logs
              /\ titles' = IF r.named
                           THEN [titles EXCEPT ![f] = @ \cup {r.name}] ELSE titles
    /\ calls' = calls + 1
    /\ UNCHANGED <<migrated, fn, arg, res>>

\* The caller takes the outcome: a returned rule joins the rules of its
\* folder, an error is logged and the alert is skipped.
Collect ==
    /\ call # NoCall
    /\ migrated' = IF ret.rule # NoRule
                   THEN [migrated EXCEPT ![ret.rule.NamespaceUID] = AddTitle(@, ret.rule.Title)]
                   ELSE migrated
    /\ call' = NoCall
    /\ ret' = [rule |-> NoRule, err |-> NoError]
    /\ silences' = <<>>
    /\ logs' = {}
    /\ UNCHANGED <<titles, calls, fn, arg, res>>

Next == MigrateAlert \/ Collect

Spec == Init /\ [][Next]_vars

-----------------------------------------------------------------------------
(* The helpers on their own: each behaviour applies one helper to one      *)
(* input and records the argument and the result.                          *)

\* Intervals in seconds: scheduler multiples, mixed units, exact weeks and
\* years, and the degenerate zero and negative values.
Intervals ==
    {0 - 10, 0, 10, 20, 60, 90, 100, 120, 3600, 3670, 86400, 604800, 694861, 31536000}

\* A title of n characters, all positions distinguishable from neighbours.
TitleOfLen(n) == [i \in 1..n |-> Digit(i % 10)]

LongDashboardTitle ==
    <<"A", " ", "v", "e", "r", "y", " ", "l", "o", "n", "g", " ",
      "d", "a", "s", "h", "b", "o", "a", "r", "d", " ",
      "t", "i", "t", "l", "e", " ", "t", "h", "a", "t", " ",
      "e", "x", "c", "e", "e", "d", "s", " ", "t", "h", "e", " ",
      "l", "i", "m", "i", "t">>

DashboardTitles ==
    {TitleOfLen(n) : n \in 0..(AlertRuleMaxRuleGroupNameLength + TitleSlack)}
    \cup {LongDashboardTitle}

RawFlags == {Absent, "true", "false", "null", "\"yes\""}

ModelChoices ==
    [hide : {Absent, "true"}, target : {Absent, "\"a\""},
     targetFull : {Absent, "\"a<b\""}, instant : RawFlags, range : RawFlags,
     datasource : {Absent, RawProm, RawPromSpaced, RawGraphite, "{}", "null",
                   "\"prom\"", "{\"type\":5}"},
     expr : {Absent}]

Reverse(sq) == [i \in 1..Len(sq) |-> sq[Len(sq) + 1 - i]]

\* The object with the members chosen by c, written in sorted or in
\* reverse order.
ModelOf(c, reversed) ==
    LET Chosen(k) == c[k] # Absent
        ks == SelectSeq(KeyOrder, Chosen)
        ms == [i \in 1..Len(ks) |-> Mem(ks[i], c[ks[i]])]
    IN Obj(IF reversed THEN Reverse(ms) ELSE ms)

AllQueries ==
    {Query("A", ds, ModelOf(c, rev)) :
        c \in ModelChoices, rev \in BOOLEAN, ds \in {"ds1", expressionDatasourceUID}}
    \cup {Query("A", "ds1", [kind |-> k]) : k \in {"null", "scalar", "invalid"}}
    \cup SampleQueries

RECURSIVE SeqsUpTo(_, _)
SeqsUpTo(S, n) ==
    IF n = 0 THEN {<<>>}
    ELSE LET shorter == SeqsUpTo(S, n - 1)
         IN shorter \cup {Append(sq, x) : sq \in shorter, x \in S}

QuerySeqs == {<<q>> : q \in AllQueries} \cup SeqsUpTo(SampleQueries, MaxQueries)

TransNoData ==
    /\ fn = "none"
    /\ \E s \in NoDataOptions :
        /\ fn' = "transNoData"
        /\ arg' = [s |-> s]
        /\ res' = transNoData(s)
    /\ UNCHANGED <<titles, migrated, calls, call, ret, silences, logs>>

TransExecErr ==
    /\ fn = "none"
    /\ \E s \in ExecErrOptions :
        /\ fn' = "transExecErr"
        /\ arg' = [s |-> s]
        /\ res' = transExecErr(s)
    /\ UNCHANGED <<titles, migrated, calls, call, ret, silences, logs>>

RuleAdjustInterval ==
    /\ fn = "none"
    /\ \E freq \in (0 - 5)..MaxFreq :
        /\ fn' = "ruleAdjustInterval"
        /\ arg' = [freq |-> freq]
        /\ res' = [interval |-> ruleAdjustInterval(freq)]
    /\ UNCHANGED <<titles, migrated, calls, call, ret, silences, logs>>

GroupName ==
    /\ fn = "none"
    /\ \E interval \in Intervals, dashboardTitle \in DashboardTitles :
        /\ fn' = "groupName"
        /\ arg' = [interval |-> interval, dashboardTitle |-> dashboardTitle]
        /\ res' = [name |-> groupName(interval, dashboardTitle)]
    /\ UNCHANGED <<titles, migrated, calls, call, ret, silences, logs>>

MigrateAlertRuleQueries ==
    /\ fn = "none"
    /\ \E data \in QuerySeqs :
        /\ fn' = "migrateAlertRuleQueries"
        /\ arg' = [data |-> data]
        /\ res' = migrateAlertRuleQueries(data)
    /\ UNCHANGED <<titles, migrated, calls, call, ret, silences, logs>>

NextHelpers ==
    \/ TransNoData
    \/ TransExecErr
    \/ RuleAdjustInterval
    \/ GroupName
    \/ MigrateAlertRuleQueries

SpecHelpers == Init /\ [][NextHelpers]_vars

-----------------------------------------------------------------------------
(* Properties of the helpers, checked under SpecHelpers *)

\* C5: the state translation is total and follows the tables: no-data
\* options ok, "", no_data, alerting, keep_state and anything else give OK,
\* NoData, NoData, Alerting, NoData and NoData; execution-error options "",
\* alerting, keep_state, ok and anything else give AlertingErrState,
\* AlertingErrState, ErrorErrState, OkErrState and ErrorErrState; a warning
\* is logged exactly for the values outside the enumeration.
StateTranslationTables ==
    /\ fn = "transNoData" =>
        /\ arg.s = "ok" => res.state = "OK"
        /\ arg.s \in {"", "no_data", "keep_state"} => res.state = "NoData"
        /\ arg.s = "alerting" => res.state = "Alerting"
        /\ arg.s \notin {"ok", "", "no_data", "alerting", "keep_state"} => res.state = "NoData"
        /\ res.warn <=> arg.s \notin {"ok", "", "no_data", "alerting", "keep_state"}
    /\ fn = "transExecErr" =>
        /\ arg.s \in {"", "alerting"} => res.state = "AlertingErrState"
        /\ arg.s = "keep_state" => res.state = "ErrorErrState"
        /\ arg.s = "ok" => res.state = "OkErrState"
        /\ arg.s \notin {"", "alerting", "keep_state", "ok"} => res.state = "ErrorErrState"
        /\ res.warn <=> arg.s \notin {"", "alerting", "keep_state", "ok"}

\* An unknown no-data option has been translated, with its warning.
UnknownNoDataTranslated ==
    fn = "transNoData" /\ arg.s = "bogus" /\ res = [state |-> "NoData", warn |-> TRUE]

\* C6 as stated: ruleAdjustInterval of 5, 10, 15, 23, 100 is 10, 10, 10, 10, 100.
AdjustIntervalAsStated ==
    fn = "ruleAdjustInterval" =>
        /\ arg.freq = 5 => res.interval = 10
        /\ arg.freq = 10 => res.interval = 10
        /\ arg.freq = 15 => res.interval = 10
        /\ arg.freq = 23 => res.interval = 10
        /\ arg.freq = 100 => res.interval = 100

\* C6 amended: ruleAdjustInterval of 5, 10, 15, 23, 100 is 10, 10, 10, 20,
\* 100: a frequency above the base is rounded down to the nearest multiple
\* of 10, anything at or below it becomes 10.
AdjustIntervalRoundsDown ==
    fn = "ruleAdjustInterval" =>
        /\ arg.freq = 5 => res.interval = 10
        /\ arg.freq = 10 => res.interval = 10
        /\ arg.freq = 15 => res.interval = 10
        /\ arg.freq = 23 => res.interval = 20
        /\ arg.freq = 100 => res.interval = 100
        /\ res.interval % 10 = 0 /\ res.interval >= 10
        /\ arg.freq > 10 => (res.interval <= arg.freq /\ arg.freq - res.interval < 10)

\* A frequency of 23 seconds has been adjusted to 20.
TwentyThreeAdjusted == fn = "ruleAdjustInterval" /\ arg.freq = 23 /\ res.interval = 20

RepairedIndexes ==
    IF fn = "migrateAlertRuleQueries" /\ res.err = Nil
    THEN {i \in 1..Len(arg.data) :
            arg.data[i].DatasourceUID # expressionDatasourceUID /\ ~Unmarshal(arg.data[i].Model).err}
    ELSE {}
Before(i) == Unmarshal(arg.data[i].Model)
After(i) == Unmarshal(res.result[i].Model)

IsTrue(m, k) == k \in DOMAIN m /\ m[k] = "true"
BothFlags(m) == IsTrue(m, "instant") /\ IsTrue(m, "range")
HasPrometheusType(m) ==
    "datasource" \in DOMAIN m /\ m["datasource"] \in {RawProm, RawPromSpaced}

\* C8: a non-expression query with instant and range both true is rewritten
\* to instant = false, range = true when its datasource type is prometheus,
\* and keeps both flags when the type is anything else, missing or
\* unparsable.
BothResolvedOnlyForPrometheus ==
    \A i \in RepairedIndexes :
        BothFlags(Before(i).m) =>
            /\ After(i).m["range"] = "true"
            /\ After(i).m["instant"] =
                 (IF HasPrometheusType(Before(i).m) THEN "false" ELSE "true")

\* A Prometheus 'Both' query has been turned into a range query.
PrometheusBothRewritten ==
    \E i \in RepairedIndexes :
        /\ BothFlags(Before(i).m) /\ HasPrometheusType(Before(i).m)
        /\ After(i).m["instant"] = "false"

\* The JSON value that raw bytes denote: a canonical spelling of it.
JSONValue(raw) ==
    CASE raw = RawPromSpaced -> RawProm
      [] raw = "\"a\\u003cb\"" -> "\"a<b\""
      [] OTHER -> raw

SameKeysAndValues(i) ==
    /\ After(i).nil = Before(i).nil
    /\ DOMAIN After(i).m = DOMAIN Before(i).m
    /\ \A k \in DOMAIN Before(i).m : JSONValue(After(i).m[k]) = JSONValue(Before(i).m[k])

-----------------------------------------------------------------------------
(* Properties of migrateAlert, checked under Spec *)

Called == call # NoCall
Returned == Called /\ ret.rule # NoRule
Failed == Called /\ ret.err # NoError

SettingsOK == call.alert.Settings.json = "ok"
ConditionOK == call.cond.err = Nil
QueriesOK ==
    \A i \in 1..Len(call.cond.Data) :
        \/ call.cond.Data[i].DatasourceUID = expressionDatasourceUID
        \/ call.cond.Data[i].Model.kind \in {"object", "null"}

\* The stage an error names: the prefix it was wrapped with, or the
\* deduplicator's own error.
StageOf(err) ==
    IF err = NoError THEN "none"
    ELSE IF err = DedupError THEN "naming"
    ELSE CASE err[1] \in {"get settings", "parse settings"} -> "settings"
           [] err[1] = "transform conditions" -> "condition"
           [] err[1] = "queries" -> "queries"
           [] OTHER -> "unknown"

\* The folder's deduplicator has no variant of the alert's name left.
NamesExhausted ==
    LET seen == titles[call.info.NewFolderUID]
        base == truncate(call.alert.Name, AlertDefinitionMaxTitleLength)
    IN /\ base \in seen
       /\ \A i \in 2..(MaxDedupAttempts + 1) :
            LET room == AlertDefinitionMaxTitleLength - Len(dedupSuffix(i))
                stem == IF Len(base) > room THEN SubSeq(base, 1, room) ELSE base
            IN stem \o dedupSuffix(i) \in seen

\* C1: the titles of the rules produced for one folder are pairwise
\* distinct, also when the legacy alerts share a name, and none is longer
\* than the maximum title length.
TitlesUniquePerFolder ==
    /\ \A f \in Folders : \A t \in DOMAIN migrated[f] :
          migrated[f][t] = 1 /\ Len(t) <= AlertDefinitionMaxTitleLength
    /\ Returned =>
          /\ Len(ret.rule.Title) <= AlertDefinitionMaxTitleLength
          /\ ret.rule.Title \notin DOMAIN migrated[ret.rule.NamespaceUID]

\* A second alert named "CPU High" has been migrated into a folder that
\* already holds the rule of the first, under another title.
SecondCPUHighRenamed ==
    /\ Returned
    /\ call.alert.Name = CPUHigh
    /\ CPUHigh \in DOMAIN migrated[call.info.NewFolderUID]
    /\ ret.rule.Title # CPUHigh

\* C2: migrateAlert returns a completed rule and no error, or no rule and
\* the first hard error in stage order (settings, condition, queries,
\* naming); with a hard error no rule is surfaced and no silence has been
\* requested.
RuleOrFirstHardError ==
    Called =>
        /\ (ret.rule = NoRule) # (ret.err = NoError)
        /\ Failed => ret.rule = NoRule /\ silences = <<>>
        /\ Returned =>
              /\ ret.rule.Title # <<>> /\ ret.rule.UID # "" /\ ret.rule.Version = 1
              /\ ret.rule.NamespaceUID = call.info.NewFolderUID
              /\ Len(ret.rule.Data) = Len(call.cond.Data)
        /\ StageOf(ret.err) =
              (IF ~SettingsOK THEN "settings"
               ELSE IF ~ConditionOK THEN "condition"
               ELSE IF ~QueriesOK THEN "queries"
               ELSE IF ret.err # NoError THEN "naming"
               ELSE "none")
        /\ StageOf(ret.err) = "naming" => NamesExhausted

\* A call has failed in the query stage, after its settings and conditions
\* went through.
QueryStageFailed ==
    Failed /\ SettingsOK /\ ConditionOK /\ StageOf(ret.err) = "queries"

RequestsOfKind(kind) ==
    LET Is(r) == r.kind = kind IN SelectSeq(silences, Is)

\* C3: for a migrated alert, an execution-error option of keep_state gives
\* exactly one error-silence request, scoped to the rule's own identifier;
\* a no-data option other than keep_state gives no no-data-silence request;
\* there are at most two requests in all.
SilenceRequestsMatchOptions ==
    Returned =>
        LET settings == call.alert.Settings IN
        /\ settings.ExecutionErrorState = "keep_state" =>
              /\ Len(RequestsOfKind("error")) = 1
              /\ RequestsOfKind("error")[1].matcher.v = ret.rule.UID
              /\ ret.rule.Labels[RequestsOfKind("error")[1].matcher.n] = ret.rule.UID
        /\ settings.NoDataState # "keep_state" => RequestsOfKind("no-data") = <<>>
        /\ Len(silences) \in {0, 1, 2}
        /\ Len(silences) = Len(RequestsOfKind("error")) + Len(RequestsOfKind("no-data"))

\* An alert with execution-error keep_state and no-data alerting has been
\* migrated with its one error silence.
ErrorSilenceRequested ==
    /\ Returned
    /\ call.alert.Settings.ExecutionErrorState = "keep_state"
    /\ call.alert.Settings.NoDataState = "alerting"
    /\ Len(silences) = 1

\* The channel a notification reference resolves to, if any.
Resolvable(key) ==
    \/ key.ID > 0 /\ key.ID \in DOMAIN ChannelsByID
    \/ key.UID # "" /\ key.UID \in DOMAIN ChannelsByUID
ResolvedName(key) ==
    IF key.ID > 0 /\ key.ID \in DOMAIN ChannelsByID
    THEN ChannelsByID[key.ID] ELSE ChannelsByUID[key.UID]
AllContactLabels ==
    {contactLabel(ChannelsByID[i]) : i \in DOMAIN ChannelsByID}
    \cup {contactLabel(ChannelsByUID[u]) : u \in DOMAIN ChannelsByUID}

\* C4: soft failures never abort: when settings, conditions and queries go
\* through and a title is found, a rule comes back without error whether or
\* not a channel reference resolves and whether or not a silence could be
\* stored; an unresolved reference only leaves its routing label out.
SoftFailuresDoNotAbort ==
    (Called /\ SettingsOK /\ ConditionOK /\ QueriesOK) =>
        /\ ret.err \in {NoError, DedupError}
        /\ ret.err = NoError =>
              LET notif == call.alert.Settings.Notifications
                  wanted == {contactLabel(ResolvedName(notif[i])) :
                                i \in {j \in 1..Len(notif) : Resolvable(notif[j])}}
              IN /\ ret.rule # NoRule
                 /\ (DOMAIN ret.rule.Labels) \cap AllContactLabels = wanted
                 /\ ret.rule.Labels[MigratedUseLegacyChannelsLabel] = "true"

\* A rule has come back although a channel reference did not resolve and
\* both silences failed to be stored.
MigratedDespiteSoftFailures ==
    /\ Returned
    /\ call.errSilenceFails /\ call.noDataSilenceFails
    /\ \E i \in 1..Len(call.alert.Settings.Notifications) :
          ~Resolvable(call.alert.Settings.Notifications[i])
    /\ \E i \in 1..Len(call.alert.Settings.Notifications) :
          Resolvable(call.alert.Settings.Notifications[i])
    /\ Len(silences) = 2

\* C10: every hard error migrateAlert returns is one wrapped error whose
\* prefix names the stage that failed (settings, condition, queries or
\* naming).
HardErrorsNameTheirStage ==
    Failed =>
        /\ Len(ret.err) = 2
        /\ ret.err[1] \in {"get settings", "parse settings", "transform conditions",
                           "queries", "deduplicate title"}

=============================================================================
